---- MODULE Spec2Model ----
(***************************************************************************)
(* A model of open-watchlist-pages.py: the WatchlistParser scanner, the    *)
(* URL query rewriter, the Database history store and the open_pages /     *)
(* update_watchlist pipeline that uses them.                               *)
(*                                                                         *)
(* Python values are modelled as follows: str is a TLA+ string, None is    *)
(* the string None below, bool fields that may also be None are the        *)
(* strings "True" / "False", a list is a sequence, an exception raised by  *)
(* a function is recorded in the field "raised" of the state it returns.   *)
(***************************************************************************)
EXTENDS Integers, Sequences, FiniteSets, TLC

VARIABLES
    \* ---- scanner (SpecScan) ----
    parser,        \* the WatchlistParser instance
    events,        \* the events HTMLParser.feed has delivered so far
    created_at,    \* for each entry of parser.watchlist_entries, the index
                   \* in events of the event that appended it
    \* ---- query rewriter (SpecUrl) ----
    url,           \* the URL string the caller holds
    recent,        \* the calls of the rewriter made so far, each with its
                   \* arguments and its outcome
    \* ---- history store (SpecStore, SpecPipeline) ----
    file,          \* the SQLite file: its tables, indexes and committed rows
    database,      \* the Database object of the current "with" statement
    clock,         \* the last timestamp get_iso_date returned
    scope,         \* how far the current "with Database(...)" statement got,
                   \* and the exception that left it
    last_membership, \* for each page title, the most recent call of
                   \* add_watchlist_page: its timestamp and its outcome
    \* ---- open_pages (SpecPipeline) ----
    run            \* the locals of one call of open_pages and its position

scanVars == <<parser, events, created_at>>

urlVars == <<url, recent>>

storeVars == <<file, database, clock, scope, last_membership>>

pipeVars == <<run>>

vars ==
    <<parser, events, created_at, url, recent, file, database, clock, scope,
      last_membership, run>>

None == "None"

----------------------------------------------------------------------------
(* Module-level constants of the script.                                   *)

WIKIPEDIA_BASE_URL == "https://en.wikipedia.org"

----------------------------------------------------------------------------
(* Bounds of the model.                                                    *)

MaxEvents == 5

----------------------------------------------------------------------------
(* Attribute helpers.  An attribute list is a sequence of <<name, value>>  *)
(* pairs, as HTMLParser hands it to handle_starttag.                       *)

RECURSIVE get_attribute(_, _)
get_attribute(attributes, name) ==
    IF attributes = <<>> THEN None
    ELSE IF Head(attributes)[1] = name THEN Head(attributes)[2]
    ELSE get_attribute(Tail(attributes), name)

has_attribute(attributes, name) == get_attribute(attributes, name) # None

\* str.split(' ') on the class strings that occur in the inputs below.
split(class_attribute) ==
    CASE class_attribute = "mw-changeslist-line mw-changeslist-line-watched"
           -> <<"mw-changeslist-line", "mw-changeslist-line-watched">>
      [] class_attribute = "mw-changeslist-line mw-changeslist-line-not-watched"
           -> <<"mw-changeslist-line", "mw-changeslist-line-not-watched">>
      [] class_attribute = "mw-changeslist-line mw-changeslist-log"
           -> <<"mw-changeslist-line", "mw-changeslist-log">>
      [] class_attribute = "mw-userlink mw-anonuserlink"
           -> <<"mw-userlink", "mw-anonuserlink">>
      [] class_attribute = "" -> <<"">>
      [] OTHER -> <<class_attribute>>

has_class(attributes, name) ==
    LET class_attribute == get_attribute(attributes, "class")
    IN  IF class_attribute # None /\ class_attribute # ""
        THEN \E i \in DOMAIN split(class_attribute) : split(class_attribute)[i] = name
        ELSE FALSE

----------------------------------------------------------------------------
(* WatchlistEntry and WatchlistParser.                                     *)

\* WatchlistEntry.__init__; user_link is the attribute handle_starttag
\* creates on the entry (None here stands for "not set").
WatchlistEntry(page_title) ==
    [page_title  |-> page_title,
     history_url |-> None,
     user        |-> None,
     user_url    |-> None,
     user_link   |-> None,
     diff        |-> None,
     seen        |-> None]

\* WatchlistParser.__init__
NewWatchlistParser ==
    [printing_data       |-> FALSE,
     watchlist_entries   |-> <<>>,
     collecting_diff     |-> FALSE,
     next_seen           |-> None,
     skipping_log_action |-> FALSE,
     raised              |-> None]

Raise(p, exception) == [p EXCEPT !.raised = exception]

\* self.watchlist_entries[-1].<field> = value; IndexError on an empty list.
SetLast(p, field, value) ==
    LET n == Len(p.watchlist_entries)
    IN  IF n = 0 THEN Raise(p, "IndexError")
        ELSE [p EXCEPT !.watchlist_entries[n][field] = value]

\* The line boundary without line 116: a log-action line does not start
\* the skipping.
NoSkipLineBoundary(p, attributes) ==
    IF has_class(attributes, "mw-changeslist-line")
    THEN IF has_attribute(attributes, "data-mw-logaction")
         THEN p
         ELSE IF has_class(attributes, "mw-changeslist-line-watched")
         THEN [p EXCEPT !.next_seen = "False", !.skipping_log_action = FALSE]
         ELSE IF has_class(attributes, "mw-changeslist-line-not-watched")
         THEN [p EXCEPT !.next_seen = "True", !.skipping_log_action = FALSE]
         ELSE Raise(p, "Exception: line does not define if it has been seen")
    ELSE p

\* The line boundary with the values of lines 118 and 121 exchanged.
SwappedLineBoundary(p, attributes) ==
    IF has_class(attributes, "mw-changeslist-line")
    THEN IF has_attribute(attributes, "data-mw-logaction")
         THEN [p EXCEPT !.skipping_log_action = TRUE]
         ELSE IF has_class(attributes, "mw-changeslist-line-watched")
         THEN [p EXCEPT !.next_seen = "True", !.skipping_log_action = FALSE]
         ELSE IF has_class(attributes, "mw-changeslist-line-not-watched")
         THEN [p EXCEPT !.next_seen = "False", !.skipping_log_action = FALSE]
         ELSE Raise(p, "Exception: line does not define if it has been seen")
    ELSE p

\* The line boundary with the test of line 125 made first: a line without
\* a seen class is passed over while a log-action line is being skipped.
SkipFirstLineBoundary(p, attributes) ==
    IF has_class(attributes, "mw-changeslist-line")
    THEN IF has_attribute(attributes, "data-mw-logaction")
         THEN [p EXCEPT !.skipping_log_action = TRUE]
         ELSE IF has_class(attributes, "mw-changeslist-line-watched")
         THEN [p EXCEPT !.next_seen = "False", !.skipping_log_action = FALSE]
         ELSE IF has_class(attributes, "mw-changeslist-line-not-watched")
         THEN [p EXCEPT !.next_seen = "True", !.skipping_log_action = FALSE]
         ELSE IF p.skipping_log_action THEN p
         ELSE Raise(p, "Exception: line does not define if it has been seen")
    ELSE p

\* handle_starttag, lines 112-124: the line boundary.
LineBoundary(p, attributes) ==
    IF has_class(attributes, "mw-changeslist-line")
    THEN IF has_attribute(attributes, "data-mw-logaction")
         THEN [p EXCEPT !.skipping_log_action = TRUE]
         ELSE IF has_class(attributes, "mw-changeslist-line-watched")
         THEN [p EXCEPT !.next_seen = "False", !.skipping_log_action = FALSE]
         ELSE IF has_class(attributes, "mw-changeslist-line-not-watched")
         THEN [p EXCEPT !.next_seen = "True", !.skipping_log_action = FALSE]
         ELSE Raise(p, "Exception: line does not define if it has been seen")
    ELSE p

\* The history link without lines 130-133: the entry keeps the seen value
\* of its constructor.
HistoryLinkUnclassified(p, attributes) ==
    IF has_class(attributes, "mw-changeslist-history")
    THEN LET p1 == [p EXCEPT !.watchlist_entries =
                        Append(@, WatchlistEntry(get_attribute(attributes, "title")))]
             href == get_attribute(attributes, "href")
         IN  IF href = None THEN Raise(p1, "TypeError")
             ELSE SetLast(p1, "history_url", WIKIPEDIA_BASE_URL \o href)
    ELSE p

\* The history link with the new entry put in front of the list.
HistoryLinkInFront(p, attributes) ==
    IF has_class(attributes, "mw-changeslist-history")
    THEN LET p1 == [p EXCEPT !.watchlist_entries =
                        <<WatchlistEntry(get_attribute(attributes, "title"))>> \o @]
             href == get_attribute(attributes, "href")
         IN  IF href = None THEN Raise(p1, "TypeError")
             ELSE LET p2 == SetLast(p1, "history_url", WIKIPEDIA_BASE_URL \o href)
                  IN  IF p2.next_seen = None
                      THEN Raise(p2, "Exception: unknown seen about an entry")
                      ELSE [SetLast(p2, "seen", p2.next_seen) EXCEPT !.next_seen = None]
    ELSE p

\* The history link without line 133: next_seen is kept for the next link.
HistoryLinkKeepSeen(p, attributes) ==
    IF has_class(attributes, "mw-changeslist-history")
    THEN LET p1 == [p EXCEPT !.watchlist_entries =
                        Append(@, WatchlistEntry(get_attribute(attributes, "title")))]
             href == get_attribute(attributes, "href")
         IN  IF href = None THEN Raise(p1, "TypeError")
             ELSE LET p2 == SetLast(p1, "history_url", WIKIPEDIA_BASE_URL \o href)
                  IN  IF p2.next_seen = None
                      THEN Raise(p2, "Exception: unknown seen about an entry")
                      ELSE SetLast(p2, "seen", p2.next_seen)
    ELSE p

\* handle_starttag, lines 127-133: the history link.  The entry is appended
\* before either exception can be raised.
HistoryLink(p, attributes) ==
    IF has_class(attributes, "mw-changeslist-history")
    THEN LET p1 == [p EXCEPT !.watchlist_entries =
                        Append(@, WatchlistEntry(get_attribute(attributes, "title")))]
             href == get_attribute(attributes, "href")
         IN  IF href = None THEN Raise(p1, "TypeError")
             ELSE LET p2 == SetLast(p1, "history_url", WIKIPEDIA_BASE_URL \o href)
                  IN  IF p2.next_seen = None
                      THEN Raise(p2, "Exception: unknown seen about an entry")
                      ELSE [SetLast(p2, "seen", p2.next_seen) EXCEPT !.next_seen = None]
    ELSE p

\* handle_starttag, lines 134-136: the user link.
UserLink(p, attributes) ==
    IF has_class(attributes, "mw-userlink")
    THEN LET p1 == SetLast(p, "user", get_attribute(attributes, "title"))
         IN  IF p1.raised # None THEN p1
             ELSE SetLast(p1, "user_link", get_attribute(attributes, "href"))
    ELSE p

\* handle_starttag, lines 137-138: the byte-delta marker.
DiffBytes(p, attributes) ==
    IF has_class(attributes, "mw-diff-bytes")
    THEN [p EXCEPT !.collecting_diff = TRUE]
    ELSE p

handle_starttag(p, attributes) ==
    LET p1 == LineBoundary(p, attributes)
    IN  IF p1.raised # None \/ p1.skipping_log_action THEN p1
        ELSE LET p2 == HistoryLink(p1, attributes)
             IN  IF p2.raised # None THEN p2
                 ELSE LET p3 == UserLink(p2, attributes)
                      IN  IF p3.raised # None THEN p3
                          ELSE DiffBytes(p3, attributes)

handle_data(p, data) ==
    IF p.collecting_diff
    THEN LET p1 == SetLast(p, "diff", data)
         IN  IF p1.raised # None THEN p1
             ELSE [p1 EXCEPT !.collecting_diff = FALSE]
    ELSE p

\* One event of HTMLParser.feed: a start tag or a run of text.
StartTag(attributes) == [kind |-> "starttag", attributes |-> attributes, data |-> None]
Data(data) == [kind |-> "data", attributes |-> <<>>, data |-> data]

handle_event(p, e) ==
    IF e.kind = "starttag" THEN handle_starttag(p, e.attributes)
    ELSE handle_data(p, e.data)

\* HTMLParser.feed over a whole fragment: the first exception ends it.
RECURSIVE feed(_, _)
feed(p, evs) ==
    IF evs = <<>> \/ p.raised # None THEN p
    ELSE feed(handle_event(p, Head(evs)), Tail(evs))

----------------------------------------------------------------------------
(* The start tags and texts the scanner is fed.                            *)

LineWatched ==
    <<<<"class", "mw-changeslist-line mw-changeslist-line-watched">>>>
LineNotWatched ==
    <<<<"class", "mw-changeslist-line mw-changeslist-line-not-watched">>>>
\* a log line as MediaWiki renders it: it also carries a watched class
LineLog ==
    <<<<"class", "mw-changeslist-line mw-changeslist-line-watched">>,
      <<"data-mw-logaction", "move/move">>>>
LineUnclassified ==
    <<<<"class", "mw-changeslist-line mw-changeslist-log">>>>
HistEarth ==
    <<<<"class", "mw-changeslist-history">>, <<"href", "/w/index.php?title=Earth">>,
      <<"title", "Earth">>>>
HistMars ==
    <<<<"class", "mw-changeslist-history">>, <<"href", "/w/index.php?title=Mars">>,
      <<"title", "Mars">>>>
HistNoTitle ==
    <<<<"class", "mw-changeslist-history">>, <<"href", "/w/index.php?title=Earth">>>>
HistNoHref ==
    <<<<"class", "mw-changeslist-history">>, <<"title", "Earth">>>>
UserLinkTag ==
    <<<<"class", "mw-userlink mw-anonuserlink">>, <<"href", "/wiki/User:A">>,
      <<"title", "User:A">>>>
DiffBytesTag ==
    <<<<"class", "mw-diff-bytes">>, <<"dir", "ltr">>>>

StartTags ==
    {LineWatched, LineNotWatched, LineLog, LineUnclassified, HistEarth, HistMars,
     HistNoTitle, HistNoHref, UserLinkTag, DiffBytesTag}

Texts == {"+120"}

----------------------------------------------------------------------------
(* SpecScan: HTMLParser.feed delivering one event after the other to a     *)
(* fresh WatchlistParser.                                                  *)

\* The creation log after one event: it grows when the entry list did.
Created(p, q) ==
    IF Len(q.watchlist_entries) > Len(p.watchlist_entries)
    THEN Append(created_at, Len(events) + 1)
    ELSE created_at

FeedStartTag ==
    \E attributes \in StartTags :
        /\ parser.raised = None
        /\ Len(events) < MaxEvents
        /\ parser' = handle_starttag(parser, attributes)
        /\ events' = Append(events, StartTag(attributes))
        /\ created_at' = Created(parser, parser')
        /\ UNCHANGED <<urlVars, storeVars, pipeVars>>

FeedData ==
    \E data \in Texts :
        /\ parser.raised = None
        /\ Len(events) < MaxEvents
        /\ parser' = handle_data(parser, data)
        /\ events' = Append(events, Data(data))
        /\ created_at' = Created(parser, parser')
        /\ UNCHANGED <<urlVars, storeVars, pipeVars>>


----------------------------------------------------------------------------
(* Vocabulary of the scanner claims: what an input event is.               *)

IsLineBoundary(e) ==
    e.kind = "starttag" /\ has_class(e.attributes, "mw-changeslist-line")

IsLogBoundary(e) ==
    IsLineBoundary(e) /\ has_attribute(e.attributes, "data-mw-logaction")

IsHistoryMarker(e) ==
    e.kind = "starttag" /\ has_class(e.attributes, "mw-changeslist-history")

IsDiffMarker(e) ==
    e.kind = "starttag" /\ has_class(e.attributes, "mw-diff-bytes")

\* Event i lies on a log-action line: the last line boundary at or before
\* it carries the log-action attribute.
InLogLine(evs, i) ==
    \E b \in 1..i :
        /\ IsLogBoundary(evs[b])
        /\ \A c \in (b + 1)..i : ~IsLineBoundary(evs[c])

\* The event sequence with every log-action line (its boundary and all the
\* events up to the next line boundary) removed.
RECURSIVE DropLogLines(_, _)
DropLogLines(evs, inLog) ==
    IF evs = <<>> THEN <<>>
    ELSE LET e == Head(evs)
         IN  IF IsLineBoundary(e)
             THEN IF IsLogBoundary(e) THEN DropLogLines(Tail(evs), TRUE)
                  ELSE <<e>> \o DropLogLines(Tail(evs), FALSE)
             ELSE IF inLog THEN DropLogLines(Tail(evs), TRUE)
                  ELSE <<e>> \o DropLogLines(Tail(evs), FALSE)

WithoutLogLines(evs) == DropLogLines(evs, FALSE)

TitleAndSeen(entries) ==
    [j \in DOMAIN entries |-> <<entries[j].page_title, entries[j].seen>>]

\* The index of the event that created the entry after entry j, or one past
\* the end of the events when entry j is the last one.
NextCreation(j) ==
    IF j < Len(created_at) THEN created_at[j + 1] ELSE Len(events) + 1

Accepted == parser.raised = None

----------------------------------------------------------------------------
(* Scanner claims.                                                         *)

\* C1 (as claimed): in every accepted scan, an entry has a diff only if a
\* byte-delta marker occurred between the event that created the entry and
\* the event that created the next entry (or the end of the fragment); an
\* entry without such a marker ends with diff absent.
C1_DiffLocality ==
    Accepted =>
        \A j \in DOMAIN parser.watchlist_entries :
            parser.watchlist_entries[j].diff # None =>
                \E i \in created_at[j]..(NextCreation(j) - 1) : IsDiffMarker(events[i])

\* C8 (as claimed): in every accepted scan no entry has an absent
\* page_title or an absent history_url, a history link lacking either
\* attribute having aborted the scan.
C8_MissingAttributeFatal ==
    Accepted =>
        \A j \in DOMAIN parser.watchlist_entries :
            /\ parser.watchlist_entries[j].page_title # None
            /\ parser.watchlist_entries[j].history_url # None

\* C10: for every event sequence, no entry is created by an event of a
\* log-action line, and the entries (title and seen value, in order) are
\* those the scanner produces for the sequence with the log-action lines
\* and their contents removed.
C10_LogLineExclusion ==
    /\ \A j \in DOMAIN created_at : ~InLogLine(events, created_at[j])
    /\ TitleAndSeen(parser.watchlist_entries) =
         TitleAndSeen(feed(NewWatchlistParser, WithoutLogLines(events)).watchlist_entries)

\* C10 witness: an accepted scan in which a line was classified, then a
\* log-action line with a history link inside it occurred, and a later
\* line produced an entry.
C10_Witness ==
    /\ Accepted
    /\ \E h, i, j \in DOMAIN events :
        /\ h < i /\ i < j
        /\ IsLineBoundary(events[h]) /\ ~IsLogBoundary(events[h])
        /\ IsLogBoundary(events[i])
        /\ IsHistoryMarker(events[j])
        /\ InLogLine(events, j)
        /\ \E n \in DOMAIN created_at : created_at[n] > j

\* A line boundary that is neither a log-action line nor carries one of
\* the two seen classes.
IsUnclassifiedBoundary(e) ==
    /\ IsLineBoundary(e)
    /\ ~IsLogBoundary(e)
    /\ ~has_class(e.attributes, "mw-changeslist-line-watched")
    /\ ~has_class(e.attributes, "mw-changeslist-line-not-watched")

\* C11: a line boundary without a seen class and without the log-action
\* attribute aborts the scan at that event, whatever the scanner state (a
\* log-action line being skipped included): it is the last event processed
\* and the scan has raised the line exception.
C11_UnclassifiedLineFatal ==
    \A i \in DOMAIN events :
        IsUnclassifiedBoundary(events[i]) =>
            /\ i = Len(events)
            /\ parser.raised = "Exception: line does not define if it has been seen"

\* C11 witness: the scan aborted at an unclassified line boundary that
\* arrived while a log-action line was being skipped.
C11_Witness ==
    /\ events # <<>>
    /\ IsUnclassifiedBoundary(events[Len(events)])
    /\ Len(events) >= 2
    /\ InLogLine(events, Len(events) - 1)
    /\ parser.skipping_log_action
    /\ parser.raised # None

\* A line boundary that sets next_seen, and the value it sets.
IsClassifyingBoundary(e) ==
    /\ IsLineBoundary(e)
    /\ ~IsLogBoundary(e)
    /\ \/ has_class(e.attributes, "mw-changeslist-line-watched")
       \/ has_class(e.attributes, "mw-changeslist-line-not-watched")

ClassSeen(e) ==
    IF has_class(e.attributes, "mw-changeslist-line-watched") THEN "False" ELSE "True"

ClassifyingBefore(evs, i) == {b \in 1..(i - 1) : IsClassifyingBoundary(evs[b])}

\* The last classifying line boundary before event i.
LastClassifying(evs, i) ==
    CHOOSE b \in ClassifyingBefore(evs, i) : \A c \in ClassifyingBefore(evs, i) : c <= b

\* C13: in every accepted scan every entry has seen True or False, never
\* None, and the value is the one set by the most recent classifying line
\* boundary before the history link that created the entry.
C13_ClassificationComplete ==
    Accepted =>
        \A j \in DOMAIN parser.watchlist_entries :
            /\ parser.watchlist_entries[j].seen \in {"True", "False"}
            /\ ClassifyingBefore(events, created_at[j]) # {}
            /\ parser.watchlist_entries[j].seen
                   = ClassSeen(events[LastClassifying(events, created_at[j])])

\* C13 witness: an accepted scan that contains a log-action line and has
\* produced an entry of each seen value.
C13_Witness ==
    /\ Accepted
    /\ \E j, k \in DOMAIN parser.watchlist_entries :
        /\ j < k
        /\ parser.watchlist_entries[j].seen # parser.watchlist_entries[k].seen
    /\ \E i \in DOMAIN events : IsLogBoundary(events[i])

\* The indexes, in order, of the history links that do not lie on a
\* log-action line, from event i on.
RECURSIVE MarkersFrom(_, _)
MarkersFrom(evs, i) ==
    IF i > Len(evs) THEN <<>>
    ELSE (IF IsHistoryMarker(evs[i]) /\ ~InLogLine(evs, i) THEN <<i>> ELSE <<>>)
         \o MarkersFrom(evs, i + 1)

\* C16: in every accepted scan the entries correspond one to one, in
\* document order, to the history links on lines that are not skipped:
\* entry j was created by the j-th such link and carries its title.
C16_OrderPreserved ==
    Accepted =>
        /\ created_at = MarkersFrom(events, 1)
        /\ Len(parser.watchlist_entries) = Len(created_at)
        /\ \A j \in DOMAIN parser.watchlist_entries :
            parser.watchlist_entries[j].page_title
                = get_attribute(events[created_at[j]].attributes, "title")

\* C16 witness: an accepted scan with two entries of different titles.
C16_Witness ==
    /\ Accepted
    /\ Len(parser.watchlist_entries) = 2
    /\ parser.watchlist_entries[1].page_title = "Mars"
    /\ parser.watchlist_entries[2].page_title = "Earth"
    /\ created_at[1] < created_at[2]

\* The event a step of the scan delivers.
Delivered == events'[Len(events')]

\* C17 (as claimed): while a log-action line is being skipped, an event
\* that is not a line boundary (a start tag with a history link, a user
\* link or a byte-delta marker, or text) leaves the entry list, every field
\* of every entry, next_seen and collecting_diff unchanged, and the next
\* classifying line boundary ends the skipping.
C17_SkippedLineFrame ==
    [][(parser.skipping_log_action /\ Len(events') = Len(events) + 1) =>
          /\ ~IsLineBoundary(Delivered) =>
                /\ parser'.watchlist_entries = parser.watchlist_entries
                /\ parser'.next_seen = parser.next_seen
                /\ parser'.collecting_diff = parser.collecting_diff
          /\ IsClassifyingBoundary(Delivered) => ~parser'.skipping_log_action]_vars

\* A classifying line boundary lies before event i and after every entry
\* creation before event i.
ClassifiedSince(i) ==
    \E b \in ClassifyingBefore(events, i) :
        \A j \in DOMAIN created_at : created_at[j] < i => created_at[j] < b

\* C18: creating an entry resets next_seen to None; a history link outside
\* a log-action line that arrives with no classifying line boundary since
\* the previous entry was created (or with none at all) aborts the scan at
\* that event; in an accepted scan a classifying line boundary lies
\* between any two entry creations.
C18_PendingSeenConsumed ==
    /\ (Accepted /\ created_at # <<>> /\ created_at[Len(created_at)] = Len(events))
           => parser.next_seen = None
    /\ \A i \in DOMAIN events :
        (IsHistoryMarker(events[i]) /\ ~InLogLine(events, i) /\ ~ClassifiedSince(i))
            => (i = Len(events) /\ parser.raised # None)
    /\ Accepted =>
        \A j \in DOMAIN created_at :
            j > 1 => \E b \in (created_at[j - 1] + 1)..(created_at[j] - 1) :
                        IsClassifyingBoundary(events[b])

\* C18 witness: the scan aborted at a second history link on a line whose
\* boundary had already yielded an entry.
C18_Witness ==
    /\ parser.raised = "Exception: unknown seen about an entry"
    /\ Len(created_at) = 2
    /\ ClassifyingBefore(events, created_at[1]) # {}
    /\ parser.watchlist_entries[1].seen # None

\* C19 (as claimed): in every reachable scanner state, the state in which
\* the scan has just aborted included, every entry of watchlist_entries
\* has seen True or False.
C19_NoUnknownEntry ==
    \A j \in DOMAIN parser.watchlist_entries :
        parser.watchlist_entries[j].seen \in {"True", "False"}

----------------------------------------------------------------------------
(* The query rewriter.  In this part a str is a sequence of characters     *)
(* (one-character strings), so that splitting, percent-decoding and        *)
(* percent-encoding are computed as urllib.parse computes them.  A dict is *)
(* a sequence of <<key, list of values>> pairs in insertion order.         *)

MaxQueryLen == 4

MaxCalls == 2

\* Scheme, host and path segments are runs of letters and dots; no
\* operation below looks inside such a run, so each is one element.
Scheme == <<"https">>
Netloc == <<"en.wikipedia.org">>
Path == <<"/", "wiki", "/", "Earth">>

\* The first position of character c in s at or after i, or 0.
RECURSIVE FindFrom(_, _, _)
FindFrom(s, c, i) ==
    IF i > Len(s) THEN 0
    ELSE IF s[i] = c THEN i
    ELSE FindFrom(s, c, i + 1)

Find(s, c) == FindFrom(s, c, 1)

From(s, i) == SubSeq(s, i, Len(s))

\* str.split(sep)
RECURSIVE str_split(_, _)
str_split(s, sep) ==
    LET i == Find(s, sep)
    IN  IF i = 0 THEN <<s>>
        ELSE <<SubSeq(s, 1, i - 1)>> \o str_split(From(s, i + 1), sep)

\* str.split(sep, 1)
str_split1(s, sep) ==
    LET i == Find(s, sep)
    IN  IF i = 0 THEN <<s>> ELSE <<SubSeq(s, 1, i - 1), From(s, i + 1)>>

\* str.replace('+', ' ')
plus_to_space(s) == [i \in DOMAIN s |-> IF s[i] = "+" THEN " " ELSE s[i]]

HexDigits ==
    {"0", "1", "2", "3", "4", "5", "6", "7", "8", "9",
     "a", "b", "c", "d", "e", "f", "A", "B", "C", "D", "E", "F"}

\* The character a percent-escape stands for (the escapes that can occur).
HexToChar(a, b) ==
    CASE a = "2" /\ b = "2" -> "\""
      [] a = "2" /\ b = "5" -> "%"
      [] a = "2" /\ b = "6" -> "&"
      [] a = "3" /\ b \in {"D", "d"} -> "="

\* urllib.parse.unquote: a % followed by two hex digits is decoded, any
\* other % is kept.
RECURSIVE unquote(_)
unquote(s) ==
    IF s = <<>> THEN <<>>
    ELSE IF s[1] = "%" /\ Len(s) >= 3 /\ s[2] \in HexDigits /\ s[3] \in HexDigits
    THEN <<HexToChar(s[2], s[3])>> \o unquote(From(s, 4))
    ELSE <<s[1]>> \o unquote(Tail(s))

\* The characters quote(..., safe='') leaves alone, among those that occur.
AlwaysSafe ==
    {"k", "0", "2", "3", "5", "6", "D"}

QuoteChar(c) ==
    IF c \in AlwaysSafe THEN <<c>>
    ELSE CASE c = "\"" -> <<"%", "2", "2">>
           [] c = "%" -> <<"%", "2", "5">>
           [] c = "&" -> <<"%", "2", "6">>
           [] c = "=" -> <<"%", "3", "D">>

\* urllib.parse.quote(s, safe='')
RECURSIVE quote(_)
quote(s) == IF s = <<>> THEN <<>> ELSE QuoteChar(Head(s)) \o quote(Tail(s))

\* dict helpers
HasKey(d, key) == \E i \in DOMAIN d : d[i][1] = key

Lookup(d, key) == d[CHOOSE i \in DOMAIN d : d[i][1] = key][2]

Keys(d) == {d[i][1] : i \in DOMAIN d}

\* parse_qs: parsed_result[name].append(value) or parsed_result[name] = [value]
DictAdd(d, key, value) ==
    IF HasKey(d, key)
    THEN [i \in DOMAIN d |-> IF d[i][1] = key THEN <<key, Append(d[i][2], value)>> ELSE d[i]]
    ELSE Append(d, <<key, <<value>>>>)

\* dict.setdefault-like variant: a key already present keeps its values.
DictUpdateKeepOld(d, key, values) ==
    IF HasKey(d, key) THEN d ELSE Append(d, <<key, values>>)

\* dict.update({key: values})
DictUpdate(d, key, values) ==
    IF HasKey(d, key)
    THEN [i \in DOMAIN d |-> IF d[i][1] = key THEN <<key, values>> ELSE d[i]]
    ELSE Append(d, <<key, values>>)

RECURSIVE Without(_, _)
Without(d, key) ==
    IF d = <<>> THEN <<>>
    ELSE IF Head(d)[1] = key THEN Without(Tail(d), key)
    ELSE <<Head(d)>> \o Without(Tail(d), key)

\* dict.pop(key): KeyError when the key is absent.
DictPop(d, key) ==
    IF HasKey(d, key) THEN [raised |-> None, dict |-> Without(d, key)]
    ELSE [raised |-> "KeyError", dict |-> d]

\* urllib.parse.parse_qs(qs, strict_parsing=True): keep_blank_values is
\* False, so a field with a blank value is dropped; a field without "="
\* (an empty field included) is a ValueError; the empty string has no
\* fields.
RECURSIVE parse_fields(_, _)
parse_fields(fields, result) ==
    IF fields = <<>> THEN [raised |-> None, dict |-> result]
    ELSE LET nv == str_split1(Head(fields), "=")
         IN  IF Len(nv) # 2 THEN [raised |-> "ValueError", dict |-> result]
             ELSE IF Len(nv[2]) > 0
             THEN parse_fields(Tail(fields),
                               DictAdd(result, unquote(plus_to_space(nv[1])),
                                       unquote(plus_to_space(nv[2]))))
             ELSE parse_fields(Tail(fields), result)

parse_qs(qs) ==
    parse_fields(IF qs = <<>> THEN <<>> ELSE str_split(qs, "&"), <<>>)

\* urllib.parse.urlencode(d, doseq=True, quote_via=quote)
RECURSIVE encode_values(_, _)
encode_values(key, values) ==
    IF values = <<>> THEN <<>>
    ELSE <<quote(key) \o <<"=">> \o quote(Head(values))>> \o encode_values(key, Tail(values))

RECURSIVE encode_items(_)
encode_items(d) ==
    IF d = <<>> THEN <<>>
    ELSE encode_values(Head(d)[1], Head(d)[2]) \o encode_items(Tail(d))

RECURSIVE str_join(_, _)
str_join(sep, parts) ==
    IF parts = <<>> THEN <<>>
    ELSE IF Len(parts) = 1 THEN Head(parts)
    ELSE Head(parts) \o <<sep>> \o str_join(sep, Tail(parts))

urlencode(d) == str_join("&", encode_items(d))

\* s cut at position i of a separator: the part before it and the part
\* after it; the whole of s and nothing when i = 0 (no separator).
CutAt(s, i) ==
    [before |-> IF i = 0 THEN s ELSE SubSeq(s, 1, i - 1),
     after  |-> IF i = 0 THEN <<>> ELSE From(s, i + 1)]

\* the two parts of s around its first c
Cut(s, c) == CutAt(s, Find(s, c))

\* urlsplit: "scheme:" is split off when a ":" follows a run without "/"
\* and ";".
SplitSchemeAt(s, c) ==
    IF c > 0 /\ \A i \in 1..(c - 1) : s[i] \notin {"/", ";"}
    THEN [scheme |-> SubSeq(s, 1, c - 1), rest |-> From(s, c + 1)]
    ELSE [scheme |-> <<>>, rest |-> s]

SplitScheme(s) == SplitSchemeAt(s, Find(s, ":"))

\* urlsplit: after "//" the netloc runs to the next "/".
SplitNetlocAt(s, i) ==
    [netloc |-> IF i = 0 THEN s ELSE SubSeq(s, 1, i - 1),
     path   |-> IF i = 0 THEN <<>> ELSE From(s, i)]

SplitNetloc(rest) ==
    IF Len(rest) >= 2 /\ rest[1] = "/" /\ rest[2] = "/"
    THEN SplitNetlocAt(From(rest, 3), Find(From(rest, 3), "/"))
    ELSE [netloc |-> <<>>, path |-> rest]

ParseResult(sr, np, pp, query, fragment) ==
    [scheme   |-> sr.scheme,
     netloc   |-> np.netloc,
     path     |-> pp.before,
     params   |-> pp.after,
     query    |-> query,
     fragment |-> fragment]

ParsePath(sr, np, query, fragment) ==
    ParseResult(sr, np, Cut(np.path, ";"), query, fragment)

ParseNetloc(sr, query, fragment) ==
    ParsePath(sr, SplitNetloc(sr.rest), query, fragment)

ParseScheme(q, fragment) == ParseNetloc(SplitScheme(q.before), q.after, fragment)

ParseQuery(f) == ParseScheme(Cut(f.before, "?"), f.after)

\* urllib.parse.urlparse on "scheme://netloc/path;params?query#fragment":
\* the fragment is cut off first, then the query, the scheme, the netloc
\* and the params.
urlparse(u) == ParseQuery(Cut(u, "#"))

\* urllib.parse.urlunparse
urlunparse(scheme, netloc, path, params, query, fragment) ==
    LET u1 == IF params # <<>> THEN path \o <<";">> \o params ELSE path
        u2 == IF netloc # <<>> THEN <<"/", "/">> \o netloc \o u1 ELSE u1
        u3 == IF scheme # <<>> THEN scheme \o <<":">> \o u2 ELSE u2
        u4 == IF query # <<>> THEN u3 \o <<"?">> \o query ELSE u3
    IN  IF fragment # <<>> THEN u4 \o <<"#">> \o fragment ELSE u4

get_query_parameters(query) == parse_qs(urlparse(query).query)

set_query_parameters(query, query_parameters) ==
    LET parsed_url == urlparse(query)
    IN  urlunparse(parsed_url.scheme, parsed_url.netloc, parsed_url.path,
                   parsed_url.params, urlencode(query_parameters), parsed_url.fragment)

\* The two rewriting functions return [raised, url]: the exception that left
\* the function, or the new URL.
remove_query_parameter(query, parameter_name) ==
    LET query_parameters == get_query_parameters(query)
    IN  IF query_parameters.raised # None
        THEN [raised |-> query_parameters.raised, url |-> None]
        ELSE LET popped == DictPop(query_parameters.dict, parameter_name)
             IN  IF popped.raised # None
                 THEN [raised |-> popped.raised, url |-> None]
                 ELSE [raised |-> None, url |-> set_query_parameters(query, popped.dict)]

set_query_parameter(query, parameter_name, new_parameter_value) ==
    LET query_parameters == get_query_parameters(query)
    IN  IF query_parameters.raised # None
        THEN [raised |-> query_parameters.raised, url |-> None]
        ELSE [raised |-> None,
              url |-> set_query_parameters(query,
                          DictUpdate(query_parameters.dict, parameter_name,
                                     <<new_parameter_value>>))]

----------------------------------------------------------------------------
(* SpecUrl: a caller applying the rewriter to a URL, call after call.      *)

QueryChars == {"k", "=", "&", "%", "2"}

RECURSIVE StringsUpTo(_)
StringsUpTo(n) ==
    IF n = 0 THEN {<<>>}
    ELSE LET shorter == StringsUpTo(n - 1)
         IN  shorter \cup {Append(s, c) : s \in {t \in shorter : Len(t) = n - 1},
                                         c \in QueryChars}

PageUrl == urlunparse(Scheme, Netloc, Path, <<>>, <<>>, <<>>)

\* Queries of two name=value fields.
FieldNames == {<<"k">>, <<"2">>}

TwoFieldQueries ==
    {n1 \o <<"=", "0", "&">> \o n2 \o <<"=", "0">> : n1 \in FieldNames, n2 \in FieldNames}

\* The input URLs: the page URL with a query of every shape up to the
\* bound (the empty one included), the same with a fragment for the
\* shorter queries, and the page URL with each two-field query.
InputUrls ==
    {urlunparse(Scheme, Netloc, Path, <<>>, q, <<>>) : q \in StringsUpTo(MaxQueryLen)}
    \cup {urlunparse(Scheme, Netloc, Path, <<>>, q, <<"f">>) :
             q \in StringsUpTo(MaxQueryLen - 1)}
    \cup {urlunparse(Scheme, Netloc, Path, <<>>, q, <<>>) : q \in TwoFieldQueries}

ParameterNames == {<<"k">>}

ParameterValues == {<<>>, <<"0">>}

SetQueryParameter ==
    \E name \in ParameterNames, value \in ParameterValues :
        LET r == set_query_parameter(url, name, value)
        IN  /\ Len(recent) < MaxCalls
            /\ recent' = Append(recent, [op |-> "set", arg |-> url, name |-> name,
                                   value |-> value, raised |-> r.raised,
                                   result |-> r.url])
            /\ url' = IF r.raised = None THEN r.url ELSE url
            /\ UNCHANGED <<scanVars, storeVars, pipeVars>>

RemoveQueryParameter ==
    \E name \in ParameterNames :
        LET r == remove_query_parameter(url, name)
        IN  /\ Len(recent) < MaxCalls
            /\ recent' = Append(recent, [op |-> "remove", arg |-> url, name |-> name,
                                   value |-> None, raised |-> r.raised,
                                   result |-> r.url])
            /\ url' = IF r.raised = None THEN r.url ELSE url
            /\ UNCHANGED <<scanVars, storeVars, pipeVars>>

----------------------------------------------------------------------------
(* The history store: class Database over an SQLite file.  A timestamp is  *)
(* a number (the instant get_iso_date formats); a table's rows are a set.  *)

MaxClock == 3

Titles == {"Earth", "Mars"}

EmptyFile ==
    [tables |-> {}, indexes |-> {},
     page |-> <<>>, page_open |-> {}, watchlist_page |-> {}]

\* Database.__init__; page (a list of names), page_open and watchlist_page
\* (sets of <<name, date>>) are the rows as the
\* connection sees them (committed ones and those of its open transaction),
\* commits and closes count the calls of connection.commit() and close().
NewDatabase ==
    [connection |-> None, commits |-> 0, closes |-> 0,
     page |-> <<>>, page_open |-> {}, watchlist_page |-> {}]

\* The statements ensure_tables_exist executes after its SELECT.
CreateTable(name) == [op |-> "CREATE TABLE", table |-> name, index |-> None]
CreateIndex(name, table) ==
    [op |-> "CREATE INDEX IF NOT EXISTS", table |-> table, index |-> name]

EnsureStatements(tables) ==
    (IF "page" \notin tables
     THEN <<CreateTable("page"), CreateTable("page_open"), CreateTable("watchlist_page")>>
     ELSE <<>>)
    \o <<CreateIndex("page_name_index", "page"),
         CreateIndex("page_open_name_date_index", "page_open")>>

NumInitStatements == 5

\* cursor.execute of statement number k; io_fail_at is the number of the
\* statement the environment fails (disk or lock error), 0 for none.  Each
\* statement that ran is durable: no transaction is open around it.
RECURSIVE execute_all(_, _, _, _)
execute_all(f, statements, k, io_fail_at) ==
    IF statements = <<>> THEN [file |-> f, raised |-> None]
    ELSE LET st == Head(statements)
         IN  IF k = io_fail_at
             THEN [file |-> f, raised |-> "sqlite3.OperationalError"]
             ELSE IF st.op = "CREATE TABLE"
             THEN IF st.table \in f.tables
                  THEN [file |-> f, raised |-> "sqlite3.OperationalError"]
                  ELSE execute_all([f EXCEPT !.tables = @ \cup {st.table}],
                                   Tail(statements), k + 1, io_fail_at)
             ELSE IF st.table \notin f.tables
                  THEN [file |-> f, raised |-> "sqlite3.OperationalError"]
                  ELSE execute_all([f EXCEPT !.indexes = @ \cup {st.index}],
                                   Tail(statements), k + 1, io_fail_at)

ensure_tables_exist(d, f, io_fail_at) ==
    IF d.connection = None THEN [file |-> f, raised |-> None]
    ELSE execute_all(f, EnsureStatements(f.tables), 1, io_fail_at)

\* Database.__enter__ after __init__: [database, file, raised].
enter(f, connect_ok, io_fail_at) ==
    IF ~connect_ok
    THEN [database |-> NewDatabase, file |-> f, raised |-> "sqlite3.OperationalError"]
    ELSE LET d == [NewDatabase EXCEPT !.connection = "open", !.page = f.page,
                                      !.page_open = f.page_open,
                                      !.watchlist_page = f.watchlist_page]
             r == ensure_tables_exist(d, f, io_fail_at)
         IN  [database |-> d, file |-> r.file, raised |-> r.raised]

\* Database.__exit__: commit, then close.
exit(d, f) ==
    [database |-> [d EXCEPT !.connection = "closed", !.commits = @ + 1, !.closes = @ + 1],
     file |-> [f EXCEPT !.page = d.page, !.page_open = d.page_open,
                        !.watchlist_page = d.watchlist_page]]

\* A plain INSERT INTO page on a table without its key.
insert_page_always(d, f, page_title) ==
    IF "page" \notin f.tables
    THEN [database |-> d, raised |-> "sqlite3.OperationalError"]
    ELSE [database |-> [d EXCEPT !.page = Append(@, page_title)], raised |-> None]

\* INSERT OR IGNORE INTO page VALUES (?): page is the list of its rows, and
\* a name the primary key already holds is ignored.
insert_page(d, f, page_title) ==
    IF "page" \notin f.tables
    THEN [database |-> d, raised |-> "sqlite3.OperationalError"]
    ELSE IF \E k \in DOMAIN d.page : d.page[k] = page_title
    THEN [database |-> d, raised |-> None]
    ELSE [database |-> [d EXCEPT !.page = Append(@, page_title)], raised |-> None]

\* Database.add_page_open with get_iso_date() = now: [database, raised].
add_page_open(d, f, page_title, now) ==
    IF d.connection = None THEN [database |-> d, raised |-> None]
    ELSE LET r == insert_page(d, f, page_title)
         IN  IF r.raised # None THEN r
             ELSE IF "page_open" \notin f.tables
             THEN [database |-> r.database, raised |-> "sqlite3.OperationalError"]
             ELSE IF <<page_title, now>> \in r.database.page_open
             THEN [database |-> r.database, raised |-> "sqlite3.IntegrityError"]
             ELSE [database |-> [r.database EXCEPT !.page_open = @ \cup {<<page_title, now>>}],
                   raised |-> None]

\* add_watchlist_page with a plain INSERT into a table without its key:
\* the row is added beside the one the name already has.
add_watchlist_page_insert(d, f, page_title, now) ==
    IF d.connection = None THEN [database |-> d, raised |-> None]
    ELSE LET r == insert_page(d, f, page_title)
         IN  IF r.raised # None THEN r
             ELSE IF "watchlist_page" \notin f.tables
             THEN [database |-> r.database, raised |-> "sqlite3.OperationalError"]
             ELSE [database |->
                      [r.database EXCEPT !.watchlist_page = @ \cup {<<page_title, now>>}],
                   raised |-> None]

\* Database.add_watchlist_page with get_iso_date() = now: [database, raised].
add_watchlist_page(d, f, page_title, now) ==
    IF d.connection = None THEN [database |-> d, raised |-> None]
    ELSE LET r == insert_page(d, f, page_title)
         IN  IF r.raised # None THEN r
             ELSE IF "watchlist_page" \notin f.tables
             THEN [database |-> r.database, raised |-> "sqlite3.OperationalError"]
             ELSE [database |->
                      [r.database EXCEPT !.watchlist_page =
                          {row \in @ : row[1] # page_title} \cup {<<page_title, now>>}],
                   raised |-> None]

\* get_iso_date: the clock does not run backwards; two calls may fall into
\* the same instant.
Instants == {t \in {clock, clock + 1} : t <= MaxClock}

NoScope == [state |-> "none", raised |-> None]

\* add_watchlist_page has not been called for the title.
NoCall == [called |-> FALSE, date |-> 0, raised |-> None]

----------------------------------------------------------------------------
(* SpecStore: "with Database(DATABASE_FILENAME) as database:" statements,  *)
(* one after the other on the same file, whose bodies call the two         *)
(* recording methods.  scope.state is "active" inside the body,            *)
(* "connect_failed" or "enter_failed" when __enter__ raised, "exited" once *)
(* __exit__ has run; scope.raised is the exception that left the          *)
(* statement.                                                              *)

Enter ==
    /\ scope.state # "active"
    /\ \E io_fail_at \in 0..NumInitStatements :
        LET r == enter(file, TRUE, io_fail_at)
        IN  /\ database' = r.database
            /\ file' = r.file
            /\ scope' = [state |-> IF r.raised = None THEN "active" ELSE "enter_failed",
                         raised |-> r.raised]
    /\ UNCHANGED <<clock, last_membership, scanVars, urlVars, pipeVars>>

EnterConnectFails ==
    /\ scope.state # "active"
    /\ LET r == enter(file, FALSE, 0)
       IN  /\ database' = r.database
           /\ file' = r.file
           /\ scope' = [state |-> "connect_failed", raised |-> r.raised]
    /\ UNCHANGED <<clock, last_membership, scanVars, urlVars, pipeVars>>

\* A call of a recording method in the body; an exception it raises leaves
\* the with statement through __exit__.
Called(r) ==
    IF r.raised = None
    THEN /\ database' = r.database
         /\ UNCHANGED <<file, scope>>
    ELSE /\ database' = exit(r.database, file).database
         /\ file' = exit(r.database, file).file
         /\ scope' = [state |-> "exited", raised |-> r.raised]

AddPageOpen ==
    /\ scope.state = "active"
    /\ \E page_title \in Titles, now \in Instants :
        /\ clock' = now
        /\ Called(add_page_open(database, file, page_title, now))
    /\ UNCHANGED <<last_membership, scanVars, urlVars, pipeVars>>

AddWatchlistPage ==
    /\ scope.state = "active"
    /\ \E page_title \in Titles, now \in Instants :
        /\ clock' = now
        /\ Called(add_watchlist_page(database, file, page_title, now))
        /\ last_membership' =
              [last_membership EXCEPT ![page_title] =
                  [called |-> TRUE, date |-> now,
                   raised |-> add_watchlist_page(database, file, page_title, now).raised]]
    /\ UNCHANGED <<scanVars, urlVars, pipeVars>>

\* The body raises an exception of its own (a webdriver timeout, a scan
\* error): __exit__ runs and the exception propagates.
CallerError ==
    /\ scope.state = "active"
    /\ database' = exit(database, file).database
    /\ file' = exit(database, file).file
    /\ scope' = [state |-> "exited", raised |-> "Exception"]
    /\ UNCHANGED <<clock, last_membership, scanVars, urlVars, pipeVars>>

\* The body ends: __exit__ runs.
Exit ==
    /\ scope.state = "active"
    /\ database' = exit(database, file).database
    /\ file' = exit(database, file).file
    /\ scope' = [state |-> "exited", raised |-> None]
    /\ UNCHANGED <<clock, last_membership, scanVars, urlVars, pipeVars>>

----------------------------------------------------------------------------
(* SpecPipeline: one call of open_pages(driver, maximum_opened_pages) on a *)
(* new database file.  The webdriver, the browser and the clock are the    *)
(* environment: the number of watchlist sections found, the markup of each *)
(* section and the timeouts of wait.until are its choices.                 *)

MaxSections == 2

MaxFragmentLen == 4

\* The values of the count argument.
Counts == {-1, 0, 1, 2}

PipelineTags == {LineWatched, LineNotWatched, LineLog, HistEarth, HistMars}

RECURSIVE FragmentsUpTo(_)
FragmentsUpTo(n) ==
    IF n = 0 THEN {<<>>}
    ELSE LET shorter == FragmentsUpTo(n - 1)
         IN  shorter \cup {Append(f, StartTag(a)) : f \in {g \in shorter : Len(g) = n - 1},
                                                  a \in PipelineTags}

Fragments == FragmentsUpTo(MaxFragmentLen)

\* The class of the line each entry of a fragment stands on: for every
\* history link outside a log-action line, in order, the seen class of the
\* last line boundary before it.
LineClass(e) ==
    IF has_class(e.attributes, "mw-changeslist-line-watched") THEN "watched"
    ELSE IF has_class(e.attributes, "mw-changeslist-line-not-watched") THEN "not-watched"
    ELSE "unclassified"

RECURSIVE EntryLinesFrom(_, _, _)
EntryLinesFrom(evs, line, inLog) ==
    IF evs = <<>> THEN <<>>
    ELSE LET e == Head(evs)
         IN  IF IsLineBoundary(e)
             THEN IF IsLogBoundary(e) THEN EntryLinesFrom(Tail(evs), line, TRUE)
                  ELSE EntryLinesFrom(Tail(evs), LineClass(e), FALSE)
             ELSE IF IsHistoryMarker(e) /\ ~inLog
             THEN <<line>> \o EntryLinesFrom(Tail(evs), line, inLog)
             ELSE EntryLinesFrom(Tail(evs), line, inLog)

EntryLines(evs) == EntryLinesFrom(evs, "none", FALSE)

\* What a fresh WatchlistParser makes of a section: the exception that
\* ended the scan or the entries, and the line of each entry.
ScanOf(fragment) ==
    [raised |-> feed(NewWatchlistParser, fragment).raised,
     watchlist_entries |-> feed(NewWatchlistParser, fragment).watchlist_entries,
     lines |-> EntryLines(fragment)]

SectionScans == {ScanOf(fragment) : fragment \in Fragments}

\* open_pages before its with statement.  lines is the class of the line of
\* each entry of the section at hand (taken from the markup, for the
\* claims); processed lists the entries the loop body has dealt with, each
\* with what was done: "skipped", "opened" (webbrowser.open was called) or
\* "not opened".
NewRun(maximum_opened_pages) ==
    [pc |-> "start",
     maximum_opened_pages |-> maximum_opened_pages,
     fetched_pages |-> 0,
     opened_pages |-> 0,
     unseen_but_not_opened_pages |-> 0,
     sections_left |-> 0,
     watchlist_entries |-> <<>>,
     lines |-> <<>>,
     i |-> 0,
     processed |-> <<>>,
     raised |-> None]

\* An exception leaves open_pages: through __exit__ when the with body
\* raised it.
Failed(r, exception) == [r EXCEPT !.pc = "failed", !.raised = exception]

LeaveBody(exception) ==
    /\ database' = exit(database, file).database
    /\ file' = exit(database, file).file
    /\ scope' = [state |-> "exited", raised |-> exception]

\* The end of the loop body for entry i: the next entry, or the end of the
\* section (line 298).
NextEntry(r) ==
    IF r.i < Len(r.watchlist_entries) THEN [r EXCEPT !.i = @ + 1]
    ELSE [r EXCEPT !.pc = "sections",
                   !.fetched_pages = @ + Len(r.watchlist_entries),
                   !.sections_left = @ - 1]

Processed(r, what) ==
    [r EXCEPT !.processed =
        Append(@, [page_title |-> r.watchlist_entries[r.i].page_title,
                   seen |-> r.watchlist_entries[r.i].seen,
                   line |-> r.lines[r.i],
                   outcome |-> what])]

\* with Database(DATABASE_FILENAME) as database (line 276)
OpenPagesEnter ==
    /\ run.pc = "start"
    /\ \E connect_ok \in BOOLEAN, io_fail_at \in 0..NumInitStatements :
        LET r == enter(file, connect_ok, io_fail_at)
        IN  /\ database' = r.database
            /\ file' = r.file
            /\ scope' = [state |-> IF r.raised = None THEN "active"
                                   ELSE IF connect_ok THEN "enter_failed"
                                   ELSE "connect_failed",
                         raised |-> r.raised]
            /\ run' = IF r.raised = None THEN [run EXCEPT !.pc = "locate"]
                      ELSE Failed(run, r.raised)
    /\ UNCHANGED <<clock, last_membership, scanVars, urlVars>>

\* wait.until(condition) (line 277): the sections, or a timeout.
LocateSections ==
    /\ run.pc = "locate"
    /\ \E n \in 0..MaxSections :
        IF n = 0
        THEN /\ run' = Failed(run, "TimeoutException")
             /\ LeaveBody("TimeoutException")
        ELSE /\ run' = [run EXCEPT !.pc = "sections", !.sections_left = n]
             /\ UNCHANGED <<file, database, scope>>
    /\ UNCHANGED <<clock, last_membership, scanVars, urlVars>>

\* parser.feed(watchlist_html) on the next section (lines 278-280).
FeedSection ==
    /\ run.pc = "sections"
    /\ run.sections_left > 0
    /\ \E scan \in SectionScans :
        LET r == [run EXCEPT !.watchlist_entries = scan.watchlist_entries,
                             !.lines = scan.lines,
                             !.i = 1]
        IN  IF scan.raised # None
            THEN /\ run' = Failed(run, scan.raised)
                 /\ LeaveBody(scan.raised)
            ELSE /\ run' = IF scan.watchlist_entries = <<>>
                           THEN [r EXCEPT !.sections_left = @ - 1]
                           ELSE [r EXCEPT !.pc = "entries"]
                 /\ UNCHANGED <<file, database, scope>>
    /\ UNCHANGED <<clock, last_membership, scanVars, urlVars>>

\* if entry.seen (lines 282-283)
SkipSeenEntry ==
    /\ run.pc = "entries"
    /\ run.watchlist_entries[run.i].seen = "True"
    /\ run' = NextEntry(Processed(run, "skipped"))
    /\ UNCHANGED <<storeVars, scanVars, urlVars>>

\* The opening branch without the test of line 284.
OpenEntryNoLimit ==
    /\ run.pc = "entries"
    /\ run.watchlist_entries[run.i].seen # "True"
    /\ \E now \in Instants :
        LET r == add_page_open(database, file, run.watchlist_entries[run.i].page_title, now)
        IN  /\ clock' = now
            /\ IF r.raised = None
               THEN /\ run' = NextEntry([Processed(run, "opened")
                                            EXCEPT !.opened_pages = @ + 1])
                    /\ database' = r.database
                    /\ UNCHANGED <<file, scope>>
               ELSE /\ run' = Failed(Processed(run, "opened"), r.raised)
                    /\ database' = exit(r.database, file).database
                    /\ file' = exit(r.database, file).file
                    /\ scope' = [state |-> "exited", raised |-> r.raised]
    /\ UNCHANGED <<last_membership, scanVars, urlVars>>

\* elif opened_pages < maximum_opened_pages (lines 284-295)
OpenEntry ==
    /\ run.pc = "entries"
    /\ run.watchlist_entries[run.i].seen # "True"
    /\ run.opened_pages < run.maximum_opened_pages
    /\ \E now \in Instants :
        LET r == add_page_open(database, file, run.watchlist_entries[run.i].page_title, now)
        IN  /\ clock' = now
            /\ IF r.raised = None
               THEN /\ run' = NextEntry([Processed(run, "opened")
                                            EXCEPT !.opened_pages = @ + 1])
                    /\ database' = r.database
                    /\ UNCHANGED <<file, scope>>
               ELSE /\ run' = Failed(Processed(run, "opened"), r.raised)
                    /\ database' = exit(r.database, file).database
                    /\ file' = exit(r.database, file).file
                    /\ scope' = [state |-> "exited", raised |-> r.raised]
    /\ UNCHANGED <<last_membership, scanVars, urlVars>>

\* the same branch when wait.until(first_seen_revision) times out (line 289)
OpenEntryTimesOut ==
    /\ run.pc = "entries"
    /\ run.watchlist_entries[run.i].seen # "True"
    /\ run.opened_pages < run.maximum_opened_pages
    /\ run' = Failed(run, "TimeoutException")
    /\ LeaveBody("TimeoutException")
    /\ UNCHANGED <<clock, last_membership, scanVars, urlVars>>

\* else (lines 296-297)
CountUnopenedEntry ==
    /\ run.pc = "entries"
    /\ run.watchlist_entries[run.i].seen # "True"
    /\ ~(run.opened_pages < run.maximum_opened_pages)
    /\ run' = NextEntry([Processed(run, "not opened")
                            EXCEPT !.unseen_but_not_opened_pages = @ + 1])
    /\ UNCHANGED <<storeVars, scanVars, urlVars>>

\* the end of the with body and of open_pages (lines 299-300)
OpenPagesReturn ==
    /\ run.pc = "sections"
    /\ run.sections_left = 0
    /\ run' = [run EXCEPT !.pc = "returned"]
    /\ LeaveBody(None)
    /\ UNCHANGED <<clock, last_membership, scanVars, urlVars>>

----------------------------------------------------------------------------
(* Vocabulary of the rewriter claims.                                      *)

\* The query of u passes the strict parse (an absent query does).
WellFormed(u) == get_query_parameters(u).raised = None

\* The parameter set of u: each name with its list of values.
Parameters(u) ==
    LET d == get_query_parameters(u).dict
    IN  [key \in Keys(d) |-> Lookup(d, key)]

SameFrame(u, v) ==
    /\ urlparse(u).scheme = urlparse(v).scheme
    /\ urlparse(u).netloc = urlparse(v).netloc
    /\ urlparse(u).path = urlparse(v).path
    /\ urlparse(u).fragment = urlparse(v).fragment

\* Call c set its parameter: it returned a URL whose parameter set is that
\* of its argument with c.name mapped to the one value, in the same frame.
SetDone(c) ==
    /\ c.raised = None
    /\ DOMAIN Parameters(c.result) = DOMAIN Parameters(c.arg) \cup {c.name}
    /\ \A key \in DOMAIN Parameters(c.result) :
         Parameters(c.result)[key] =
            IF key = c.name THEN <<c.value>> ELSE Parameters(c.arg)[key]
    /\ SameFrame(c.result, c.arg)
    /\ c.arg = PageUrl => c.result = PageUrl \o <<"?">> \o c.name \o <<"=">> \o c.value

----------------------------------------------------------------------------
(* Rewriter claims.                                                        *)

\* C3 (as claimed): remove_query_parameter on a URL whose well-formed query
\* does not contain the name raises nothing and returns a URL with the same
\* parameter set.
C3_RemoveAbsentIsNoError ==
    \A i \in DOMAIN recent :
        (/\ recent[i].op = "remove"
         /\ WellFormed(recent[i].arg)
         /\ recent[i].name \notin DOMAIN Parameters(recent[i].arg))
        => (/\ recent[i].raised = None
            /\ Parameters(recent[i].result) = Parameters(recent[i].arg))

\* C5 (as claimed): for a URL u with a well-formed query that holds no
\* parameter k, and every value v, set_query_parameter(u, k, v) followed by
\* remove_query_parameter(., k) succeeds and yields the parameter set of u.
C5_RoundTrip ==
    \A i \in 1..(Len(recent) - 1) :
        (/\ recent[i].op = "set"
         /\ recent[i + 1].op = "remove"
         /\ recent[i + 1].name = recent[i].name
         /\ WellFormed(recent[i].arg)
         /\ recent[i].name \notin DOMAIN Parameters(recent[i].arg))
        => (/\ recent[i].raised = None
            /\ recent[i + 1].raised = None
            /\ recent[i + 1].arg = recent[i].result
            /\ Parameters(recent[i + 1].result) = Parameters(recent[i].arg))

C14_SetIdempotent ==
    \A i \in 1..(Len(recent) - 1) :
        (/\ recent[i].op = "set"
         /\ recent[i + 1].op = "set"
         /\ recent[i + 1].name = recent[i].name
         /\ recent[i + 1].value = recent[i].value
         /\ WellFormed(recent[i].arg)
         /\ recent[i].raised = None
         /\ recent[i + 1].arg = recent[i].result)
        => (/\ recent[i + 1].raised = None
            /\ recent[i + 1].result = recent[i].result)

----------------------------------------------------------------------------
(* Claims about the history store (SpecStore).                             *)

Range(seq) == {seq[k] : k \in 1..Len(seq)}

TableNames == {"page", "page_open", "watchlist_page"}

\* C7 (as claimed): after every successful open of the store all three
\* tables page, page_open and watchlist_page exist, whatever subset of them
\* the file held before the open.
C7_SelfHealingInit ==
    scope.state = "active" => file.tables = TableNames

\* C9 (as claimed): on every exit path of a with statement that acquired
\* the connection (the body ended, the body raised, or ensure_tables_exist
\* failed during __enter__) the connection has been committed and closed
\* exactly once and is not left open, and the rows written before the
\* failure are in the file.
C9_ScopedConnection ==
    scope.state \in {"exited", "enter_failed"} =>
        /\ database.connection = "closed"
        /\ database.commits = 1
        /\ database.closes = 1
        /\ file.page = database.page
        /\ file.page_open = database.page_open
        /\ file.watchlist_page = database.watchlist_page

\* The rows of a table as the store holds them: those the connection sees
\* inside a with body, the committed ones otherwise.
StoreRows(table) ==
    IF scope.state = "active" THEN database[table] ELSE file[table]

MembershipRows(page_title) == {row \in StoreRows("watchlist_page") : row[1] = page_title}

\* C12: after any sequence of add_watchlist_page and add_page_open calls,
\* watchlist_page holds at most one row for a page name, the row carries
\* the timestamp of the most recent add_watchlist_page call for the name,
\* and the row exists when that call succeeded.
C12_MembershipUpsert ==
    \A page_title \in Titles :
        /\ Cardinality(MembershipRows(page_title)) <= 1
        /\ \A row \in MembershipRows(page_title) :
            /\ last_membership[page_title].called
            /\ row[2] = last_membership[page_title].date
        /\ (last_membership[page_title].called /\ last_membership[page_title].raised = None)
               => MembershipRows(page_title) # {}

\* C12 witness: a name whose committed row carries an earlier timestamp
\* has been added again, and the connection sees the single row with the
\* later timestamp.
C12_Witness ==
    /\ scope.state = "active"
    /\ \E page_title \in Titles :
        \E old \in file.watchlist_page :
            /\ old[1] = page_title
            /\ last_membership[page_title].date > old[2]
            /\ database.watchlist_page
                   = {<<page_title, last_membership[page_title].date>>}
            /\ database.page_open # {}

PageNames == Range(StoreRows("page"))

NamesIn(table) == {row[1] : row \in StoreRows(table)}

\* Every name of page_open and of watchlist_page is a name of page, and
\* page holds no name twice.
Referenced ==
    /\ NamesIn("page_open") \cup NamesIn("watchlist_page") \subseteq PageNames
    /\ \A j, k \in DOMAIN StoreRows("page") :
         StoreRows("page")[j] = StoreRows("page")[k] => j = k

\* A step removes no row: the names of page and of watchlist_page and the
\* rows of page_open are kept.
NoRowRemoved ==
    /\ PageNames \subseteq PageNames'
    /\ StoreRows("page_open") \subseteq StoreRows("page_open")'
    /\ NamesIn("watchlist_page") \subseteq NamesIn("watchlist_page")'

\* C15: after any sequence of add_page_open and add_watchlist_page calls,
\* failing ones included, every name in page_open or watchlist_page is in
\* page, page holds each name once, and no step removes a row of any of the
\* three tables.
C15_ReferentialIntegrity == [](Referenced) /\ [][NoRowRemoved]_vars

\* C15 witness: a with statement left by a failed add_page_open (a
\* repeated key) after rows were written to all three tables.
C15_Witness ==
    /\ scope.state = "exited"
    /\ scope.raised = "sqlite3.IntegrityError"
    /\ file.page_open # {}
    /\ file.watchlist_page # {}
    /\ Len(file.page) = Cardinality(Titles)

----------------------------------------------------------------------------
(* Claims about open_pages (SpecPipeline).                                 *)

StoreErrors == {"sqlite3.OperationalError", "sqlite3.IntegrityError"}

Outcomes(line) == {e.outcome : e \in {x \in Range(run.processed) : x.line = line}}

OpenedTitles == {e.page_title : e \in {x \in Range(run.processed) : x.outcome = "opened"}}

C4_StoreFailuresSwallowed ==
    run.raised \notin StoreErrors

\* The entries among the first k - 1 processed ones that were opened.
OpenedBefore(k) == {j \in 1..(k - 1) : run.processed[j].outcome = "opened"}

WithOutcome(what) == {k \in DOMAIN run.processed : run.processed[k].outcome = what}

\* max(N, 0) for the count argument N
Limit == IF run.maximum_opened_pages > 0 THEN run.maximum_opened_pages ELSE 0

\* C20: in a run of open_pages with count N at most max(N, 0) pages are
\* opened and at most that many rows are added to page_open; an entry is
\* skipped when seen is true, opened when it is among the first N entries
\* with seen false in document order across the sections, and counted in
\* unseen_but_not_opened_pages otherwise; a run that returns has dealt with
\* every scanned entry in exactly one of the three ways.
C20_BoundedInOrder ==
    /\ Cardinality(WithOutcome("opened")) <= Limit
    /\ Cardinality(StoreRows("page_open")) <= Limit
    /\ \A k \in DOMAIN run.processed :
        run.processed[k].outcome =
            IF run.processed[k].seen = "True" THEN "skipped"
            ELSE IF Cardinality(OpenedBefore(k)) < run.maximum_opened_pages THEN "opened"
            ELSE "not opened"
    /\ run.unseen_but_not_opened_pages = Cardinality(WithOutcome("not opened"))
    /\ run.pc # "failed" => run.opened_pages = Cardinality(WithOutcome("opened"))
    /\ run.pc = "returned" => run.fetched_pages = Len(run.processed)

\* C20 witness: a run with count 1 over two sections has returned after
\* skipping an entry, opening one and counting a later unseen one.
C20_Witness ==
    /\ run.pc = "returned"
    /\ run.maximum_opened_pages = 1
    /\ \E a, b, c \in DOMAIN run.processed :
        /\ a < b /\ b < c
        /\ run.processed[a].outcome = "skipped"
        /\ run.processed[b].outcome = "opened"
        /\ run.processed[c].outcome = "not opened"
    /\ Cardinality(file.page_open) = 1

----------------------------------------------------------------------------
(* Specifications.                                                         *)

ScanIdle ==
    /\ parser = NewWatchlistParser
    /\ events = <<>>
    /\ created_at = <<>>

UrlIdle ==
    /\ url = <<>>
    /\ recent = <<>>

StoreIdle ==
    /\ file = EmptyFile
    /\ database = NewDatabase
    /\ clock = 1
    /\ scope = NoScope
    /\ last_membership = [page_title \in Titles |-> NoCall]

PipelineIdle == run = NewRun(0)

InitScan == ScanIdle /\ UrlIdle /\ StoreIdle /\ PipelineIdle

NextScan == FeedStartTag \/ FeedData

SpecScan == InitScan /\ [][NextScan]_vars

InitUrl ==
    /\ ScanIdle
    /\ StoreIdle
    /\ PipelineIdle
    /\ url \in InputUrls
    /\ recent = <<>>

NextUrl == SetQueryParameter \/ RemoveQueryParameter

SpecUrl == InitUrl /\ [][NextUrl]_vars

InitStore == ScanIdle /\ UrlIdle /\ StoreIdle /\ PipelineIdle

NextStore ==
    \/ Enter
    \/ EnterConnectFails
    \/ AddPageOpen
    \/ AddWatchlistPage
    \/ CallerError
    \/ Exit

SpecStore == InitStore /\ [][NextStore]_vars

InitPipeline ==
    /\ ScanIdle
    /\ UrlIdle
    /\ StoreIdle
    /\ \E maximum_opened_pages \in Counts : run = NewRun(maximum_opened_pages)

NextPipeline ==
    \/ OpenPagesEnter
    \/ LocateSections
    \/ FeedSection
    \/ SkipSeenEntry
    \/ OpenEntry
    \/ OpenEntryTimesOut
    \/ CountUnopenedEntry
    \/ OpenPagesReturn

SpecPipeline == InitPipeline /\ [][NextPipeline]_vars

====
